---- MODULE Spec2Model ----
(***************************************************************************)
(* Model of the streaming decoder of chat_mastra (src-tauri/src/lib.rs):   *)
(* the HTTP status check, the chunk loop with its line buffer, the frame   *)
(* classification of each line, the payload resolution, the coalescing of  *)
(* text under a size/time threshold and the terminal events.               *)
(*                                                                         *)
(* Text is a sequence of characters, a character is a one-token string.    *)
(* The transport delivers bytes; an ASCII byte and its character share a   *)
(* token, the bytes of a multi-byte character have tokens of their own.    *)
(***************************************************************************)
EXTENDS Integers, Sequences, FiniteSets, TLC

VARIABLES wire, status, pos, phase, pc, buffer, accumulated_text, last_emit,
          clock, events, result, cause, accepted, last_accept, accepts, refused,
          received

\* received is all text the chunks read so far have added to the buffer.
vars == <<wire, status, pos, phase, pc, buffer, accumulated_text, last_emit,
          clock, events, result, cause, accepted, last_accept, accepts, refused,
          received>>

----------------------------------------------------------------------------
(* Characters and bytes *)

QUOTE == "\""
BSL == "\\"
NL == "\n"
CR == "\r"
TAB == "\t"

\* U+00E9 is encoded as the two bytes C3 A9, U+20AC as the three bytes E2 82 AC.
CharE9 == "U+00E9"
Char20AC == "U+20AC"
CharFFFD == "U+FFFD"

\* Number of UTF-8 bytes of a character (str::len counts bytes).
Utf8Width(c) ==
  IF c = CharE9 THEN 2
  ELSE IF c \in {Char20AC, CharFFFD} THEN 3
  ELSE 1

Indices(s) == [i \in 1..Len(s) |-> i]

\* str::len: the sum of the widths of the characters.
ByteLen(s) ==
  LET Two(c) == Utf8Width(c) = 2
      Three(c) == Utf8Width(c) = 3
  IN Len(s) + Len(SelectSeq(s, Two)) + 2 * Len(SelectSeq(s, Three))

DropFirst(s, n) == SubSeq(s, n + 1, Len(s))

At(s, i) == IF i >= 1 /\ i <= Len(s) THEN s[i] ELSE "EOF"

\* String::from_utf8_lossy: the chunk is decoded on its own; a complete
\* sequence gives its character, every maximal incomplete or stray part one
\* U+FFFD.  A byte is covered when it continues a sequence begun before it.
from_utf8_lossy(bs) ==
  LET Covered(i) ==
        \/ At(bs, i - 1) = "C3" /\ bs[i] = "A9"
        \/ At(bs, i - 1) = "E2" /\ bs[i] = "82"
        \/ At(bs, i - 2) = "E2" /\ At(bs, i - 1) = "82" /\ bs[i] = "AC"
      Starts(i) == ~Covered(i)
      Decoded(i) ==
        IF bs[i] = "C3"
          THEN IF At(bs, i + 1) = "A9" THEN CharE9 ELSE CharFFFD
        ELSE IF bs[i] = "E2"
          THEN IF At(bs, i + 1) = "82" /\ At(bs, i + 2) = "AC"
                 THEN Char20AC ELSE CharFFFD
        ELSE IF bs[i] \in {"A9", "82", "AC"} THEN CharFFFD
        ELSE bs[i]
      first == SelectSeq(Indices(bs), Starts)
  IN [k \in 1..Len(first) |-> Decoded(first[k])]

\* Whitespace removed by str::trim among the characters of the model.
White == {" ", CR, TAB, NL}

RECURSIVE TrimStart(_)
TrimStart(s) ==
  IF s # <<>> /\ Head(s) \in White THEN TrimStart(Tail(s)) ELSE s

RECURSIVE TrimEnd(_)
TrimEnd(s) ==
  IF s # <<>> /\ s[Len(s)] \in White THEN TrimEnd(SubSeq(s, 1, Len(s) - 1)) ELSE s

trim(s) == TrimEnd(TrimStart(s))

\* buffer.find('\n'): index of the first newline, 0 when there is none.
find(s) ==
  LET IsNewline(i) == s[i] = NL
      found == SelectSeq(Indices(s), IsNewline)
  IN IF found = <<>> THEN 0 ELSE found[1]

starts_with(s, p) == Len(s) >= Len(p) /\ SubSeq(s, 1, Len(p)) = p

\* Number of characters that make up the first n bytes of s, or -1 when byte
\* offset n is not a character boundary (slicing there panics).
RECURSIVE CharsInBytes(_, _)
CharsInBytes(s, n) ==
  IF n = 0 THEN 0
  ELSE IF s = <<>> \/ Utf8Width(Head(s)) > n THEN -1
  ELSE LET r == CharsInBytes(Tail(s), n - Utf8Width(Head(s)))
       IN IF r = -1 THEN -1 ELSE r + 1

----------------------------------------------------------------------------
(* serde_json::from_str::<serde_json::Value> on the characters of the model. *)
(* A value is kept as far as the decoder looks at it: whether it is a       *)
(* string (as_str), and for an object the string under the key "text".      *)

Digits == {"0", "1", "2", "3", "4", "5", "6", "7", "8", "9"}
JsonWhite == {" ", CR, TAB, NL}
ControlChars == {CR, TAB, NL}
TextKey == <<"t", "e", "x", "t">>

\* Escapes of a JSON string (the \u escape is not among the model's characters).
Unescape(c) ==
  CASE c = "n" -> NL
    [] c = "r" -> CR
    [] c = "t" -> TAB
    [] OTHER -> c

Escapable == {QUOTE, BSL, "/", "n", "r", "t"}

JsonValue(t, str, text) == [t |-> t, s |-> str, text |-> text]
JsonFail == [ok |-> FALSE, v |-> JsonValue("none", <<>>, <<>>), next |-> 0]
JsonOk(v, next) == [ok |-> TRUE, v |-> v, next |-> next]
JsonOther == JsonValue("other", <<>>, <<>>)

RECURSIVE SkipWs(_, _)
SkipWs(s, i) ==
  IF i <= Len(s) /\ s[i] \in JsonWhite THEN SkipWs(s, i + 1) ELSE i

\* A string literal whose opening quote is at i - 1.  A character is escaped
\* when an odd run of backslashes stands before it; the literal ends at the
\* first quote that is not escaped; an escape must be a known one and no
\* control character may stand in the literal.
ScanStr(s, i) ==
  LET Escaped(p) ==
        LET run == CHOOSE q \in i..p :
                     /\ \A j \in q..(p - 1) : s[j] = BSL
                     /\ (q = i \/ s[q - 1] # BSL)
        IN (p - run) % 2 = 1
      Closes(p) == p >= i /\ s[p] = QUOTE /\ ~Escaped(p)
      closing == SelectSeq(Indices(s), Closes)
  IN IF closing = <<>> THEN JsonFail
     ELSE LET close == closing[1]
              Unit(p) == p >= i /\ p < close /\ ~Escaped(p)
              units == SelectSeq(Indices(s), Unit)
              Valid(p) == IF s[p] = BSL THEN s[p + 1] \in Escapable
                          ELSE s[p] \notin ControlChars
          IN IF \A k \in 1..Len(units) : Valid(units[k])
               THEN JsonOk(JsonValue("str",
                      [k \in 1..Len(units) |->
                         IF s[units[k]] = BSL THEN Unescape(s[units[k] + 1])
                         ELSE s[units[k]]], <<>>), close + 1)
               ELSE JsonFail

RECURSIVE SkipDigits(_, _)
SkipDigits(s, i) ==
  IF At(s, i) \in Digits THEN SkipDigits(s, i + 1) ELSE i

\* -?(0|[1-9][0-9]*)(\.[0-9]+)?([eE][+-]?[0-9]+)?
ScanNumber(s, i) ==
  LET i1 == IF At(s, i) = "-" THEN i + 1 ELSE i
      i2 == IF At(s, i1) = "0" THEN i1 + 1 ELSE SkipDigits(s, i1)
      f1 == IF At(s, i2) = "." THEN SkipDigits(s, i2 + 1) ELSE i2
      fracBad == At(s, i2) = "." /\ f1 = i2 + 1
      hasExp == At(s, f1) \in {"e", "E"}
      e1 == IF hasExp /\ At(s, f1 + 1) \in {"+", "-"} THEN f1 + 2 ELSE f1 + 1
      e2 == IF hasExp THEN SkipDigits(s, e1) ELSE f1
      expBad == hasExp /\ e2 = e1
  IN IF i2 = i1 \/ fracBad \/ expBad \/ (At(s, i1) = "0" /\ At(s, i2) \in Digits)
       THEN JsonFail
       ELSE JsonOk(JsonOther, e2)

ScanLiteral(s, i, lit) ==
  IF i + Len(lit) - 1 <= Len(s) /\ SubSeq(s, i, i + Len(lit) - 1) = lit
    THEN JsonOk(JsonOther, i + Len(lit))
    ELSE JsonFail

RECURSIVE ParseValue(_, _)
RECURSIVE ParseMembers(_, _, _)
RECURSIVE ParseElements(_, _)

ParseValue(s, i) ==
  LET c == At(s, i) IN
  IF c = QUOTE THEN ScanStr(s, i + 1)
  ELSE IF c = "{"
    THEN LET j == SkipWs(s, i + 1)
         IN IF At(s, j) = "}" THEN JsonOk(JsonValue("obj", <<>>, <<>>), j + 1)
            ELSE ParseMembers(s, j, <<>>)
  ELSE IF c = "["
    THEN LET j == SkipWs(s, i + 1)
         IN IF At(s, j) = "]" THEN JsonOk(JsonOther, j + 1)
            ELSE ParseElements(s, j)
  ELSE IF c = "t" THEN ScanLiteral(s, i, <<"t", "r", "u", "e">>)
  ELSE IF c = "f" THEN ScanLiteral(s, i, <<"f", "a", "l", "s", "e">>)
  ELSE IF c = "n" THEN ScanLiteral(s, i, <<"n", "u", "l", "l">>)
  ELSE IF c = "-" \/ c \in Digits THEN ScanNumber(s, i)
  ELSE JsonFail

\* The members of an object from the key at i on; text is the string found
\* under "text" so far (a later duplicate key replaces an earlier one).
ParseMembers(s, i, text) ==
  IF At(s, i) # QUOTE THEN JsonFail
  ELSE LET key == ScanStr(s, i + 1) IN
    IF ~key.ok THEN JsonFail
    ELSE LET colon == SkipWs(s, key.next) IN
      IF At(s, colon) # ":" THEN JsonFail
      ELSE LET val == ParseValue(s, SkipWs(s, colon + 1)) IN
        IF ~val.ok THEN JsonFail
        ELSE LET text2 == IF key.v.s = TextKey
                            THEN IF val.v.t = "str" THEN <<val.v.s>> ELSE <<>>
                            ELSE text
                 sep == SkipWs(s, val.next)
             IN IF At(s, sep) = "," THEN ParseMembers(s, SkipWs(s, sep + 1), text2)
                ELSE IF At(s, sep) = "}"
                  THEN JsonOk(JsonValue("obj", <<>>, text2), sep + 1)
                ELSE JsonFail

ParseElements(s, i) ==
  LET val == ParseValue(s, i) IN
  IF ~val.ok THEN JsonFail
  ELSE LET sep == SkipWs(s, val.next)
       IN IF At(s, sep) = "," THEN ParseElements(s, SkipWs(s, sep + 1))
          ELSE IF At(s, sep) = "]" THEN JsonOk(JsonOther, sep + 1)
          ELSE JsonFail

\* from_str: one value, surrounded by optional whitespace, and nothing else.
from_str(s) ==
  LET val == ParseValue(s, SkipWs(s, 1)) IN
  IF val.ok /\ SkipWs(s, val.next) > Len(s) THEN val ELSE JsonFail

as_str(v) == IF v.t = "str" THEN <<v.s>> ELSE <<>>

get_text(v) == IF v.t = "obj" THEN v.text ELSE <<>>

----------------------------------------------------------------------------
(* The decoder state that one line changes, and the steps on it.  cause is *)
(* "none" while the command runs on, "sink" once window.emit has returned  *)
(* an error, "panic" once a slice has panicked.                            *)

SizeThreshold == 50
TimeThresholdMs == 100

Event(name, payload) == [name |-> name, payload |-> payload]

\* accepted is all text pushed to accumulated_text so far, last_accept the time
\* of the last push, accepts the number of pushes: they record what the
\* debouncer was given.  refused is the place in events of the emit the sink
\* refused, 0 while it has refused none.
Decoder(buf, acc, last, evs, acp, at, n, r, c) ==
  [buffer |-> buf, accumulated_text |-> acc, last_emit |-> last,
   events |-> evs, accepted |-> acp, last_accept |-> at, accepts |-> n,
   refused |-> r, cause |-> c]

\* window.emit(name, payload)?: the call is recorded; when the sink refuses it
\* the command returns the error and nothing after the call is executed.
Emit(st, name, payload, ok) ==
  [st EXCEPT !.events = Append(@, Event(name, payload)),
             !.refused = IF ok THEN @ ELSE Len(st.events) + 1,
             !.cause = IF ok THEN @ ELSE "sink"]

\* As Coalesce, emitting whatever has been accumulated at every push.
CoalesceEager(st, text, now, ok) ==
  LET pushed == [st EXCEPT !.accumulated_text = @ \o text,
                           !.accepted = @ \o text,
                           !.last_accept = now,
                           !.accepts = @ + 1]
      sent == Emit(pushed, "chat_chunk", pushed.accumulated_text, ok)
  IN IF ok THEN [sent EXCEPT !.accumulated_text = <<>>, !.last_emit = now] ELSE sent

\* As Coalesce, but the text stays in accumulated_text after it was emitted.
CoalesceKeepsBuffer(st, text, now, ok) ==
  LET pushed == [st EXCEPT !.accumulated_text = @ \o text,
                           !.accepted = @ \o text,
                           !.last_accept = now,
                           !.accepts = @ + 1]
  IN IF ByteLen(pushed.accumulated_text) > SizeThreshold
        \/ now - st.last_emit > TimeThresholdMs
       THEN LET sent == Emit(pushed, "chat_chunk", pushed.accumulated_text, ok)
            IN IF ok THEN [sent EXCEPT !.last_emit = now] ELSE sent
       ELSE pushed

\* As Coalesce, emitting already at 50 bytes and at 100 ms.
CoalesceAtThreshold(st, text, now, ok) ==
  LET pushed == [st EXCEPT !.accumulated_text = @ \o text,
                           !.accepted = @ \o text,
                           !.last_accept = now,
                           !.accepts = @ + 1]
  IN IF ByteLen(pushed.accumulated_text) >= SizeThreshold
        \/ now - st.last_emit >= TimeThresholdMs
       THEN LET sent == Emit(pushed, "chat_chunk", pushed.accumulated_text, ok)
            IN IF ok
                 THEN [sent EXCEPT !.accumulated_text = <<>>, !.last_emit = now]
                 ELSE sent
       ELSE pushed

\* As Coalesce, without the test of the length.
CoalesceTimeOnly(st, text, now, ok) ==
  LET pushed == [st EXCEPT !.accumulated_text = @ \o text,
                           !.accepted = @ \o text,
                           !.last_accept = now,
                           !.accepts = @ + 1]
  IN IF now - st.last_emit > TimeThresholdMs
       THEN LET sent == Emit(pushed, "chat_chunk", pushed.accumulated_text, ok)
            IN IF ok
                 THEN [sent EXCEPT !.accumulated_text = <<>>, !.last_emit = now]
                 ELSE sent
       ELSE pushed

\* As Coalesce, without the test of the time.
CoalesceSizeOnly(st, text, now, ok) ==
  LET pushed == [st EXCEPT !.accumulated_text = @ \o text,
                           !.accepted = @ \o text,
                           !.last_accept = now,
                           !.accepts = @ + 1]
  IN IF ByteLen(pushed.accumulated_text) > SizeThreshold
       THEN LET sent == Emit(pushed, "chat_chunk", pushed.accumulated_text, ok)
            IN IF ok
                 THEN [sent EXCEPT !.accumulated_text = <<>>, !.last_emit = now]
                 ELSE sent
       ELSE pushed

\* The debouncer: push_str, then emit and reset when the text is longer than
\* 50 bytes or more than 100 ms have passed since last_emit.
Coalesce(st, text, now, ok) ==
  LET pushed == [st EXCEPT !.accumulated_text = @ \o text,
                           !.accepted = @ \o text,
                           !.last_accept = now,
                           !.accepts = @ + 1]
  IN IF ByteLen(pushed.accumulated_text) > SizeThreshold
        \/ now - st.last_emit > TimeThresholdMs
       THEN LET sent == Emit(pushed, "chat_chunk", pushed.accumulated_text, ok)
            IN IF ok
                 THEN [sent EXCEPT !.accumulated_text = <<>>, !.last_emit = now]
                 ELSE sent
       ELSE pushed

\* As FlushRemaining, emitting only text longer than the size threshold.
FlushRemainingIfLong(st, ok) ==
  IF ByteLen(st.accumulated_text) > SizeThreshold
    THEN LET sent == Emit(st, "chat_chunk", st.accumulated_text, ok)
         IN IF ok THEN [sent EXCEPT !.accumulated_text = <<>>] ELSE sent
    ELSE st

\* As FlushRemaining, chat_stream_end emitted after the text.
FlushRemainingEndsStream(st, ok) ==
  LET flushed == IF st.accumulated_text # <<>>
                   THEN Emit(st, "chat_chunk", st.accumulated_text, ok)
                   ELSE st
  IN IF flushed.cause = "sink" THEN flushed
     ELSE Emit([flushed EXCEPT !.accumulated_text = <<>>], "chat_stream_end", <<>>, ok)

\* As FlushRemaining, the text left in accumulated_text after the emit.
FlushRemainingKeeps(st, ok) ==
  IF st.accumulated_text # <<>>
    THEN Emit(st, "chat_chunk", st.accumulated_text, ok)
    ELSE st

\* "Emit any remaining accumulated text" at an end marker.
FlushRemaining(st, ok) ==
  IF st.accumulated_text # <<>>
    THEN LET sent == Emit(st, "chat_chunk", st.accumulated_text, ok)
         IN IF ok THEN [sent EXCEPT !.accumulated_text = <<>>] ELSE sent
    ELSE st

\* content.starts_with('"') && content.ends_with('"') && content.len() >= 2
IsQuoted(content) ==
  /\ content # <<>>
  /\ Head(content) = QUOTE
  /\ content[Len(content)] = QUOTE
  /\ ByteLen(content) >= 2

StripQuotes(content) == SubSeq(content, 2, Len(content) - 1)

\* As TextFrame, without the fallback to the quoted payload.
TextFrameJsonOnly(st, content, now, ok) ==
  LET parsed == from_str(content) IN
  IF parsed.ok /\ as_str(parsed.v) # <<>>
    THEN Coalesce(st, as_str(parsed.v)[1], now, ok)
    ELSE st

\* prefix '0'
TextFrame(st, content, now, ok) ==
  LET parsed == from_str(content) IN
  IF parsed.ok
    THEN IF as_str(parsed.v) # <<>>
           THEN Coalesce(st, as_str(parsed.v)[1], now, ok)
           ELSE st
    ELSE IF IsQuoted(content)
           THEN Coalesce(st, StripQuotes(content), now, ok)
           ELSE st

\* As ErrorFrame, the payload emitted as it stands.
ErrorFrameRaw(st, content, ok) ==
  Emit(st, "chat_stream_error", content, ok)

\* prefix '3'
ErrorFrame(st, content, ok) ==
  LET error_content == IF IsQuoted(content) THEN StripQuotes(content) ELSE content
  IN Emit(st, "chat_stream_error", error_content, ok)

\* A line whose second character is ':'.
MultiplexedLine(st, line, now, ok) ==
  LET cut == CharsInBytes(line, 2) IN
  IF cut = -1 THEN [st EXCEPT !.cause = "panic"]
  ELSE LET prefix == line[1]
           content == DropFirst(line, cut)
       IN CASE prefix = "f" -> st
            [] prefix = "0" -> TextFrame(st, content, now, ok)
            [] prefix \in {"e", "d"} -> FlushRemaining(st, ok)
            [] prefix = "3" -> ErrorFrame(st, content, ok)
            [] OTHER -> st

DataPrefix == <<"d", "a", "t", "a", ":", " ">>
DoneMarker == <<"[", "D", "O", "N", "E", "]">>

\* As SseLine, the data taken as text as it stands, never parsed.
SseLineWholeData(st, line, now, ok) ==
  LET data == DropFirst(line, Len(DataPrefix)) IN
  IF data = DoneMarker THEN FlushRemaining(st, ok)
  ELSE IF data # <<>> THEN Coalesce(st, data, now, ok) ELSE st

\* A line that starts with "data: ".
SseLine(st, line, now, ok) ==
  LET data == DropFirst(line, Len(DataPrefix)) IN
  IF data = DoneMarker THEN FlushRemaining(st, ok)
  ELSE LET parsed == from_str(data) IN
    IF parsed.ok
      THEN IF get_text(parsed.v) # <<>>
             THEN Coalesce(st, get_text(parsed.v)[1], now, ok)
             ELSE st
      ELSE IF data # <<>> THEN Coalesce(st, data, now, ok) ELSE st

\* One trimmed, complete line.
ClassifyLine(st, line, now, ok) ==
  IF line = <<>> THEN st
  ELSE IF ByteLen(line) >= 2 /\ At(line, 2) = ":"
    THEN MultiplexedLine(st, line, now, ok)
  ELSE IF starts_with(line, DataPrefix) THEN SseLine(st, line, now, ok)
  ELSE st

\* As LineStep, the buffer cleared once its first line is taken.
LineStepClearsBuffer(st, now, ok) ==
  LET p == find(st.buffer)
      line == trim(SubSeq(st.buffer, 1, p - 1))
      drained == [st EXCEPT !.buffer = <<>>]
  IN ClassifyLine(drained, line, now, ok)

\* One turn of `while let Some(pos) = buffer.find('\n')`.
LineStep(st, now, ok) ==
  LET p == find(st.buffer)
      line == trim(SubSeq(st.buffer, 1, p - 1))
      drained == [st EXCEPT !.buffer = DropFirst(@, p)]
  IN ClassifyLine(drained, line, now, ok)

\* As FinishStream, going on to chat_stream_end after a refused chat_chunk.
FinishStreamAfterRefusal(st, okChunk, okEnd) ==
  LET flushed == IF st.accumulated_text # <<>>
                   THEN Emit(st, "chat_chunk", st.accumulated_text, okChunk)
                   ELSE st
  IN [Emit(flushed, "chat_stream_end", <<>>, okEnd)
        EXCEPT !.refused = IF flushed.refused # 0 THEN flushed.refused ELSE @,
               !.cause = IF flushed.cause = "sink" THEN "sink" ELSE @]

\* As FinishStream, what is left in the buffer handled as a last line first.
FinishStreamTakesTail(st, okChunk, okEnd) ==
  LET last == ClassifyLine([st EXCEPT !.buffer = <<>>], trim(st.buffer),
                           st.last_emit, TRUE)
      flushed == IF last.accumulated_text # <<>>
                   THEN Emit(last, "chat_chunk", last.accumulated_text, okChunk)
                   ELSE last
  IN IF flushed.cause = "sink" THEN flushed
     ELSE Emit(flushed, "chat_stream_end", <<>>, okEnd)

\* As FinishStream, without the remaining text.
FinishStreamNoFlush(st, okChunk, okEnd) ==
  Emit(st, "chat_stream_end", <<>>, okEnd)

\* As FinishStream, the end signalled before the remaining text.
FinishStreamEndFirst(st, okChunk, okEnd) ==
  LET ended == Emit(st, "chat_stream_end", <<>>, okEnd)
  IN IF ended.cause = "sink" \/ st.accumulated_text = <<>> THEN ended
     ELSE Emit(ended, "chat_chunk", st.accumulated_text, okChunk)

\* After the loop: the remaining text, then chat_stream_end.  okChunk and okEnd
\* say whether the sink takes the one and the other.
FinishStream(st, okChunk, okEnd) ==
  LET flushed == IF st.accumulated_text # <<>>
                   THEN Emit(st, "chat_chunk", st.accumulated_text, okChunk)
                   ELSE st
  IN IF flushed.cause = "sink" THEN flushed
     ELSE Emit(flushed, "chat_stream_end", <<>>, okEnd)

----------------------------------------------------------------------------
(* The streams the transport may carry *)

MaxLines == 3
MaxClock == 150
TickMs == 50

Rep(c, n) == [i \in 1..n |-> c]

TextLine(payload) == <<"0", ":", QUOTE>> \o payload \o <<QUOTE>>

LineStart == <<"f", ":", QUOTE, "m", QUOTE>>
LineA == TextLine(<<"a">>)
LineAccent == TextLine(<<"C3", "A9">>)
LineEmpty == TextLine(<<>>)
LineDone == <<"d", ":", "x">>
LineEnd == <<"e", ":", "{", "}">>
LineError == <<"3", ":", QUOTE, "r", QUOTE>>
LineErrorRaw == <<"3", ":", "r">>
LineNumber == <<"0", ":", "7">>
LineTab == TextLine(<<"a", TAB, "b">>)
LineUnknown == <<"x", ":", "y">>
LineEuro == <<"E2", "82", "AC", ":", "y">>
LineNoise == <<"h", "i">>
LineSseDone == DataPrefix \o DoneMarker
SseTextLine(text) ==
  DataPrefix \o <<"{", QUOTE>> \o TextKey \o <<QUOTE, ":", QUOTE>> \o text \o <<QUOTE, "}">>
LineSseText == SseTextLine(<<"h">>)
LineSseEmpty == SseTextLine(<<>>)
LineLoneQuote == <<"0", ":", QUOTE>>
LineSseString == DataPrefix \o <<QUOTE, "h", QUOTE>>
LineSseQuoted == DataPrefix \o <<QUOTE, "a", TAB, "b", QUOTE>>
LineSseObject == DataPrefix \o <<"{", "}">>
LineErrorEscaped == <<"3", ":", QUOTE, "a", BSL, "n", "b", QUOTE>>
LineSseRaw == DataPrefix \o <<"h", "i">>
LineSseNumber == DataPrefix \o <<"7">>

CoreMenu == {LineA, LineAccent, LineEmpty, LineDone, LineError}

RECURSIVE JoinLines(_)
JoinLines(ls) ==
  IF ls = <<>> THEN <<>> ELSE Head(ls) \o <<NL>> \o JoinLines(Tail(ls))

CoreWires ==
  { JoinLines(ls) : ls \in UNION { [1..n -> CoreMenu] : n \in 0..MaxLines } }

ScenarioWires ==
  { JoinLines(<<LineStart, LineA, TextLine(<<" ", "b">>), LineDone>>),
    JoinLines(<<LineStart, LineA, LineA, LineEnd>>),
    JoinLines(<<LineStart, LineA, LineSseDone>>),
    JoinLines(<<LineStart, LineAccent, LineDone>>),
    JoinLines(<<LineStart, LineEmpty, LineDone>>),
    JoinLines(<<LineStart, LineDone>>),
    JoinLines(<<TextLine(Rep("a", 25)), TextLine(Rep("a", 25)), LineA>>),
    JoinLines(<<TextLine(Rep("a", 51)), LineDone>>),
    JoinLines(<<LineSseText, LineSseDone>>),
    JoinLines(<<LineSseEmpty, LineSseDone>>),
    JoinLines(<<LineSseString, LineSseQuoted, LineSseObject>>),
    JoinLines(<<LineA>>) \o TextLine(<<"b">>),
    JoinLines(<<LineA, LineLoneQuote, LineDone>>),
    JoinLines(<<LineErrorEscaped>>),
    JoinLines(<<LineSseRaw, LineSseNumber, LineA>>),
    JoinLines(<<LineA, LineUnknown, <<>>, LineNoise, LineError>>),
    JoinLines(<<LineA, LineNumber, LineTab, LineErrorRaw>>),
    JoinLines(<<LineA, LineEuro, LineA>>),
    JoinLines(<<LineA, LineError>>) \o <<"0", ":", QUOTE, "b">>,
    <<"0", ":", QUOTE, "a", QUOTE, CR, NL, " ", "d", ":", "x", NL>> }

Wires == CoreWires \cup ScenarioWires

----------------------------------------------------------------------------
(* The session *)

HttpStatuses == {200, 500}

\* StatusCode::is_success
is_success(code) == code >= 200 /\ code <= 299
ErrorBodies == {"body", "Failed to read error body"}
HttpErrorMessage(code, body) == <<"Mastra server returned error", code, body>>
ReadErrorMessage == <<"Error reading stream from Mastra">>

Current ==
  Decoder(buffer, accumulated_text, last_emit, events, accepted, last_accept,
          accepts, refused, cause)

\* The variables of the decoder take the values of st; the session ends when
\* an emit has failed or a slice has panicked, else it goes to the next line
\* of the buffer or back to reading.
Continue(st) ==
  /\ buffer' = st.buffer
  /\ accumulated_text' = st.accumulated_text
  /\ last_emit' = st.last_emit
  /\ events' = st.events
  /\ accepted' = st.accepted
  /\ last_accept' = st.last_accept
  /\ accepts' = st.accepts
  /\ refused' = st.refused
  /\ cause' = st.cause
  /\ phase' = CASE st.cause = "sink" -> "Failed"
                [] st.cause = "panic" -> "Panicked"
                [] OTHER -> "Streaming"
  /\ result' = IF st.cause = "sink" THEN "Err" ELSE result
  /\ pc' = IF find(st.buffer) # 0 THEN "lines" ELSE "read"

Init ==
  /\ wire \in Wires
  /\ status \in HttpStatuses
  /\ pos = 0
  /\ phase = "Connecting"
  /\ pc = "read"
  /\ buffer = <<>>
  /\ accumulated_text = <<>>
  /\ last_emit = 0
  /\ clock = 0
  /\ events = <<>>
  /\ result = "none"
  /\ cause = "none"
  /\ accepted = <<>>
  /\ last_accept = 0
  /\ accepts = 0
  /\ refused = 0
  /\ received = <<>>

\* The response has arrived with a success status: the stream, the buffers and
\* the debouncer are set up.
ResponseOk ==
  /\ phase = "Connecting"
  /\ is_success(status)
  /\ phase' = "Streaming"
  /\ last_emit' = clock
  /\ buffer' = <<>>
  /\ accumulated_text' = <<>>
  /\ UNCHANGED <<wire, status, pos, pc, clock, events, result, cause, accepted, last_accept, accepts, refused, received>>

\* As ResponseError, without the return: the stream is read all the same.
ResponseErrorGoesOn ==
  /\ phase = "Connecting"
  /\ ~is_success(status)
  /\ \E body \in ErrorBodies :
       events' = Append(events, Event("chat_stream_error", HttpErrorMessage(status, body)))
  /\ phase' = "Streaming"
  /\ UNCHANGED <<wire, status, pos, pc, buffer, accumulated_text, last_emit, clock, result, cause, accepted, last_accept, accepts, refused, received>>

\* The response has a non-success status: one chat_stream_error, then Err.
ResponseError ==
  /\ phase = "Connecting"
  /\ ~is_success(status)
  /\ \E body \in ErrorBodies, ok \in BOOLEAN :
       /\ events' = Append(events, Event("chat_stream_error", HttpErrorMessage(status, body)))
       /\ cause' = IF ok THEN "http" ELSE "sink"
       /\ refused' = IF ok THEN 0 ELSE Len(events) + 1
  /\ phase' = "Failed"
  /\ result' = "Err"
  /\ UNCHANGED <<wire, status, pos, pc, buffer, accumulated_text, last_emit, clock, accepted, last_accept, accepts, received>>

\* stream.next() yields Ok(chunk_bytes): the next k bytes of the wire.
ReadChunk ==
  /\ phase = "Streaming"
  /\ pc = "read"
  /\ \E k \in 1..(Len(wire) - pos) :
       /\ pos' = pos + k
       /\ buffer' = buffer \o from_utf8_lossy(SubSeq(wire, pos + 1, pos + k))
       /\ received' = received \o from_utf8_lossy(SubSeq(wire, pos + 1, pos + k))
  /\ pc' = IF find(buffer') # 0 THEN "lines" ELSE "read"
  /\ UNCHANGED <<wire, status, phase, accumulated_text, last_emit, clock, events, result, cause, accepted, last_accept, accepts, refused>>

\* The next complete line of the buffer is taken out and handled.
ProcessLine ==
  /\ phase = "Streaming"
  /\ pc = "lines"
  /\ \E ok \in BOOLEAN : Continue(LineStep(Current, clock, ok))
  /\ UNCHANGED <<wire, status, pos, clock, received>>

\* As ReadError, without the return: the loop asks for the next chunk again.
ReadErrorGoesOn ==
  /\ phase = "Streaming"
  /\ pc = "read"
  /\ cause # "transport"
  /\ events' = Append(events, Event("chat_stream_error", ReadErrorMessage))
  /\ cause' = "transport"
  /\ UNCHANGED <<wire, status, pos, phase, pc, buffer, accumulated_text, last_emit, clock, result, accepted, last_accept, accepts, refused, received>>

\* As ReadError, the accumulated text emitted before the error.
ReadErrorFlushes ==
  /\ phase = "Streaming"
  /\ pc = "read"
  /\ \E ok \in BOOLEAN :
       /\ events' = (IF accumulated_text # <<>>
                       THEN Append(events, Event("chat_chunk", accumulated_text))
                       ELSE events)
                      \o <<Event("chat_stream_error", ReadErrorMessage)>>
       /\ cause' = IF ok THEN "transport" ELSE "sink"
       /\ refused' = IF ok THEN 0 ELSE Len(events')
  /\ phase' = "Failed"
  /\ result' = "Err"
  /\ UNCHANGED <<wire, status, pos, pc, buffer, accumulated_text, last_emit, clock, accepted, last_accept, accepts, received>>

\* stream.next() yields Err(e).
ReadError ==
  /\ phase = "Streaming"
  /\ pc = "read"
  /\ \E ok \in BOOLEAN :
       /\ events' = Append(events, Event("chat_stream_error", ReadErrorMessage))
       /\ cause' = IF ok THEN "transport" ELSE "sink"
       /\ refused' = IF ok THEN 0 ELSE Len(events) + 1
  /\ phase' = "Failed"
  /\ result' = "Err"
  /\ UNCHANGED <<wire, status, pos, pc, buffer, accumulated_text, last_emit, clock, accepted, last_accept, accepts, received>>

\* As EndOfStream, the command returning Ok whatever the sink did.
EndOfStreamAlwaysOk ==
  /\ phase = "Streaming"
  /\ pc = "read"
  /\ pos = Len(wire)
  /\ \E okChunk \in BOOLEAN, okEnd \in BOOLEAN :
       LET st == FinishStream(Current, okChunk, okEnd) IN
         /\ events' = st.events
         /\ cause' = st.cause
         /\ refused' = st.refused
         /\ phase' = IF st.cause = "sink" THEN "Failed" ELSE "Completed"
         /\ result' = "Ok"
  /\ UNCHANGED <<wire, status, pos, pc, buffer, accumulated_text, last_emit, clock, accepted, last_accept, accepts, received>>

\* stream.next() yields None: the wire is exhausted.
EndOfStream ==
  /\ phase = "Streaming"
  /\ pc = "read"
  /\ pos = Len(wire)
  /\ \E okChunk \in BOOLEAN, okEnd \in BOOLEAN :
       LET st == FinishStream(Current, okChunk, okEnd) IN
         /\ events' = st.events
         /\ cause' = st.cause
         /\ refused' = st.refused
         /\ phase' = IF st.cause = "sink" THEN "Failed" ELSE "Completed"
         /\ result' = IF st.cause = "sink" THEN "Err" ELSE "Ok"
  /\ UNCHANGED <<wire, status, pos, pc, buffer, accumulated_text, last_emit, clock, accepted, last_accept, accepts, received>>

\* Time passes while the command runs.
Tick ==
  /\ phase = "Streaming"
  /\ clock + TickMs <= MaxClock
  /\ clock' = clock + TickMs
  /\ UNCHANGED <<wire, status, pos, phase, pc, buffer, accumulated_text, last_emit, events, result, cause, accepted, last_accept, accepts, refused, received>>

Next ==
  \/ ResponseOk
  \/ ResponseError
  \/ ReadChunk
  \/ ProcessLine
  \/ ReadError
  \/ EndOfStream
  \/ Tick

Spec == Init /\ [][Next]_vars

----------------------------------------------------------------------------
(* What the sink has been given *)

RECURSIVE ChunkText(_)
ChunkText(evs) ==
  IF evs = <<>> THEN <<>>
  ELSE (IF Head(evs).name = "chat_chunk" THEN Head(evs).payload ELSE <<>>)
         \o ChunkText(Tail(evs))

Count(evs, name) == Cardinality({i \in DOMAIN evs : evs[i].name = name})

LastEvent == events[Len(events)]

StreamEnd == Event("chat_stream_end", <<>>)
TextChunk(text) == Event("chat_chunk", text)
StreamError(message) == Event("chat_stream_error", message)

\* The line the next ProcessLine takes out of the buffer, and the frame it is.
PendingLine == trim(SubSeq(buffer, 1, find(buffer) - 1))
Selector(line) == IF Len(line) >= 2 /\ line[2] = ":" THEN line[1] ELSE "none"
Payload(line) == DropFirst(line, 2)

\* The lines of a stream of bytes, and the rest after its last newline.
RECURSIVE SplitLines(_)
SplitLines(bs) ==
  IF find(bs) = 0 THEN <<>>
  ELSE <<trim(SubSeq(bs, 1, find(bs) - 1))>> \o SplitLines(DropFirst(bs, find(bs)))

RECURSIVE Unterminated(_)
Unterminated(bs) == IF find(bs) = 0 THEN bs ELSE Unterminated(DropFirst(bs, find(bs)))

\* The whole stream handled as one chunk, every emit accepted, the clock
\* standing still: the loop over the lines, then the end of the stream.
RECURSIVE DrainLines(_, _)
DrainLines(st, now) ==
  IF find(st.buffer) = 0 \/ st.cause # "none" THEN st
  ELSE DrainLines(LineStep(st, now, TRUE), now)

SingleChunkRun(bs) ==
  LET st == DrainLines(Decoder(from_utf8_lossy(bs), <<>>, 0, <<>>, <<>>, 0, 0, 0, "none"), 0)
  IN IF st.cause = "none" THEN FinishStream(st, TRUE, TRUE) ELSE st

\* A well-formed multiplexed stream: newline-terminated lines, each with one
\* of the selectors f 0 e d 3, the payload of a text line a JSON string.
WellFormedLine(line) ==
  /\ Selector(line) \in {"f", "0", "e", "d", "3"}
  /\ Selector(line) = "0" =>
       LET parsed == from_str(from_utf8_lossy(Payload(line)))
       IN parsed.ok /\ parsed.v.t = "str"

WellFormedMultiplexed(bs) ==
  /\ Unterminated(bs) = <<>>
  /\ \A i \in DOMAIN SplitLines(bs) : WellFormedLine(SplitLines(bs)[i])

----------------------------------------------------------------------------
(* Claims *)

\* C1: for a well-formed multiplexed stream, however its bytes are split into
\* chunks, the concatenated chat_chunk text of a completed session equals the
\* concatenated chat_chunk text of the same stream delivered as one chunk.
C1_SplitIndependent ==
  (phase = "Completed" /\ WellFormedMultiplexed(wire))
    => ChunkText(events) = ChunkText(SingleChunkRun(wire).events)

\* C2: in a session that reached the graceful end of the stream with every
\* emit accepted, the concatenated chat_chunk text equals the concatenation of
\* all text given to the debouncer, in the order it was given.
C2_CoalescingKeepsText ==
  phase = "Completed" => ChunkText(events) = accepted

C2_Witness ==
  /\ phase = "Completed"
  /\ Count(events, "chat_chunk") >= 2
  /\ Len(accepted) >= 3
  /\ events[1].name = "chat_chunk"
  /\ events[1].payload # accepted

\* C3: at the graceful end of the stream, text still in accumulated_text goes
\* out as exactly one chat_chunk carrying all of it, before chat_stream_end;
\* with nothing accumulated chat_stream_end is the only emit.
GracefulEndStep ==
  /\ phase = "Streaming"
  /\ pc = "read"
  /\ phase' \in {"Completed", "Failed"}
  /\ events'[Len(events')] # StreamError(ReadErrorMessage)

C3_FinalFlush ==
  [][GracefulEndStep =>
       IF accumulated_text # <<>>
         THEN \/ events' = events \o <<TextChunk(accumulated_text), StreamEnd>>
              \/ /\ cause' = "sink"
                 /\ events' = events \o <<TextChunk(accumulated_text)>>
         ELSE events' = events \o <<StreamEnd>>]_vars

C3_Witness ==
  /\ phase = "Completed"
  /\ accumulated_text # <<>>
  /\ Len(events) >= 2
  /\ events[Len(events) - 1] = TextChunk(accumulated_text)
  /\ LastEvent = StreamEnd

\* C4: a session that finished without a sink failure has exactly one
\* terminating event and it is the last one: chat_stream_end when Completed,
\* the chat_stream_error of the transport when Failed; chat_stream_end is
\* never emitted twice; a finished session emits and reads nothing more.
HttpError(e) ==
  /\ e.name = "chat_stream_error"
  /\ \E body \in ErrorBodies : e.payload = HttpErrorMessage(status, body)

TerminatingEvent(e) ==
  \/ e = StreamEnd
  \/ e = StreamError(ReadErrorMessage)
  \/ HttpError(e)

Finished == phase \in {"Completed", "Failed"}

C4_Terminated ==
  /\ Count(events, "chat_stream_end") <= 1
  /\ (Finished /\ cause # "sink") =>
       /\ events # <<>>
       /\ TerminatingEvent(LastEvent)
       /\ Cardinality({i \in DOMAIN events : TerminatingEvent(events[i])}) = 1
       /\ (phase = "Completed") <=> (LastEvent = StreamEnd)
       /\ (phase = "Failed") <=> (LastEvent.name = "chat_stream_error")

C4_OneTerminatingEvent ==
  /\ []C4_Terminated
  /\ [][Finished => UNCHANGED <<events, pos, phase, buffer>>]_vars

C4_Witness ==
  /\ phase = "Completed"
  /\ Count(events, "chat_stream_error") >= 1
  /\ Count(events, "chat_chunk") >= 1
  /\ LastEvent = StreamEnd

\* C5: no chat_chunk with an empty payload is ever emitted.
C5_ChunksNonEmpty ==
  \A i \in DOMAIN events : events[i].name = "chat_chunk" => events[i].payload # <<>>

\* C6: with a non-success status the session emits the one chat_stream_error
\* with the status and the body and nothing else, reads no chunk, handles no
\* line, and ends Failed with Err.
C6_HttpFailure ==
  (~is_success(status) /\ phase # "Connecting") =>
    /\ phase = "Failed"
    /\ result = "Err"
    /\ Len(events) = 1
    /\ HttpError(events[1])
    /\ pos = 0
    /\ pc = "read"
    /\ buffer = <<>>
    /\ accepted = <<>>

C6_Witness ==
  /\ status = 500
  /\ phase = "Failed"
  /\ cause = "http"
  /\ Len(wire) > 0

\* C7: when reading the next chunk fails, the one chat_stream_error for it is
\* emitted in that step, the session is Failed, and afterwards nothing is read
\* and nothing is emitted.
ReadFailed == cause = "transport"

C7_ReadFailedState ==
  ReadFailed =>
    /\ phase = "Failed"
    /\ result = "Err"
    /\ LastEvent = StreamError(ReadErrorMessage)
    /\ Cardinality({i \in DOMAIN events : events[i] = StreamError(ReadErrorMessage)}) = 1

C7_TransportError ==
  /\ []C7_ReadFailedState
  /\ [][(~ReadFailed /\ ReadFailed') =>
          /\ phase = "Streaming"
          /\ events' = Append(events, StreamError(ReadErrorMessage))]_vars
  /\ [][ReadFailed => UNCHANGED <<events, pos, phase, buffer, accumulated_text>>]_vars

C7_Witness ==
  /\ ReadFailed
  /\ pos > 0
  /\ pos < Len(wire)
  /\ Len(events) >= 2

\* A payload without the one pair of double quotes around it, if it has one.
Unquoted(payload) ==
  IF Len(payload) >= 2 /\ payload[1] = QUOTE /\ payload[Len(payload)] = QUOTE
    THEN SubSeq(payload, 2, Len(payload) - 1)
    ELSE payload

ErrorLineStep ==
  /\ phase = "Streaming"
  /\ pc = "lines"
  /\ Selector(PendingLine) = "3"
  /\ buffer' # buffer

\* C8: a line with selector 3 emits one chat_stream_error carrying its payload
\* without the surrounding quotes and does not end the session: it stays
\* Streaming and goes to the next line or the next chunk, and a session
\* with such an error that reaches the graceful end ends with chat_stream_end.
C8_ErrorFrameGoesOn ==
  /\ [][ErrorLineStep =>
          /\ events' = Append(events, StreamError(Unquoted(Payload(PendingLine))))
          /\ buffer' = DropFirst(buffer, find(buffer))
          /\ cause' # "sink" =>
               /\ phase' = "Streaming"
               /\ result' = "none"
               /\ pc' = IF find(buffer') # 0 THEN "lines" ELSE "read"]_vars
  /\ [](phase = "Completed" => LastEvent = StreamEnd)

C8_Witness ==
  /\ wire = JoinLines(<<LineError, LineA, LineDone>>)
  /\ phase = "Completed"
  /\ events = <<StreamError(<<"r">>), TextChunk(<<"a">>), StreamEnd>>

\* C9: a line with selector 3 handled while accumulated_text is not empty
\* first emits the accumulated text as one chat_chunk and clears it, then
\* emits the chat_stream_error.
C9_FlushBeforeError ==
  [][(ErrorLineStep /\ accumulated_text # <<>>) =>
       /\ \/ events' = events \o <<TextChunk(accumulated_text),
                                   StreamError(Unquoted(Payload(PendingLine)))>>
          \/ /\ cause' = "sink"
             /\ events' = events \o <<TextChunk(accumulated_text)>>
       /\ cause' # "sink" => accumulated_text' = <<>>]_vars

\* The stream is a message start line, then one or more text lines, then an
\* end marker line, each ended by a newline.
IsTextDelta(line) ==
  \/ Selector(line) = "0"
  \/ /\ Selector(line) = "none"
     /\ starts_with(line, DataPrefix)
     /\ Len(line) > Len(DataPrefix)
     /\ line # DataPrefix \o DoneMarker

IsEndMarker(line) ==
  \/ Selector(line) \in {"e", "d"}
  \/ line = DataPrefix \o DoneMarker

StartTextEnd(bs) ==
  LET ls == SplitLines(bs) IN
    /\ Unterminated(bs) = <<>>
    /\ Len(ls) >= 3
    /\ Selector(ls[1]) = "f"
    /\ IsEndMarker(ls[Len(ls)])
    /\ \A i \in 2..(Len(ls) - 1) : IsTextDelta(ls[i])

SmallAndEarly ==
  /\ phase = "Completed"
  /\ StartTextEnd(wire)
  /\ ByteLen(accepted) <= SizeThreshold
  /\ last_accept <= TimeThresholdMs

\* C10 as stated: such a stream, its text at most 50 bytes and all of it
\* accepted within 100 ms, yields exactly one chat_chunk with the whole text
\* and then chat_stream_end.
C10_OneChunkThenEnd ==
  SmallAndEarly => events = <<TextChunk(accepted), StreamEnd>>

\* C10 amended: one chat_chunk with the whole text and then chat_stream_end
\* when the text is not empty; chat_stream_end alone when it is empty.
C10_OneChunkUnlessEmpty ==
  SmallAndEarly =>
    events = IF accepted # <<>> THEN <<TextChunk(accepted), StreamEnd>>
             ELSE <<StreamEnd>>

C10_Witness ==
  /\ SmallAndEarly
  /\ Len(SplitLines(wire)) = 4
  /\ Len(accepted) = 3
  /\ clock = 100
  /\ events = <<TextChunk(accepted), StreamEnd>>

\* C11: once the sink has refused an emit the command is over with an error:
\* the refused emit is the last one made (no chat_stream_end follows it), the
\* command has returned Err, and from then on no event is emitted, no further
\* line is taken out of the buffer and no further chunk is read.
C11_SinkFailureAborts ==
  /\ [](refused # 0 =>
          /\ refused = Len(events)
          /\ cause = "sink"
          /\ phase = "Failed"
          /\ result = "Err")
  /\ [][refused # 0 =>
          UNCHANGED <<events, pos, buffer, accumulated_text, phase, result>>]_vars
  /\ [][(refused = 0 /\ refused' # 0 /\ pc = "lines") =>
          /\ buffer' = DropFirst(buffer, find(buffer))
          /\ pos' = pos]_vars

\* A chat_chunk refused in the middle of the stream: a complete line is still
\* in the buffer and bytes of the stream are still unread.
C11_Witness ==
  /\ refused = 1
  /\ events[refused].name = "chat_chunk"
  /\ find(buffer) # 0
  /\ pos < Len(wire)
  /\ phase = "Failed"

\* The stream is the one line data: {"text":"<text>"} and then data: [DONE],
\* and the session has reached the graceful end of the stream.
SseTexts == {<<"h">>, <<>>}

SseTextThenDone(text) ==
  /\ phase = "Completed"
  /\ wire = JoinLines(<<SseTextLine(text), LineSseDone>>)

\* C12 as stated: the line data: {"text":"<text>"} gives the debouncer exactly
\* the value of the text field, and followed by data: [DONE] and the graceful
\* end of the stream the emits are one chat_chunk with that text and then
\* chat_stream_end.
C12_SseTextThenEnd ==
  \A text \in SseTexts :
    SseTextThenDone(text) =>
      /\ accepts = 1
      /\ accepted = text
      /\ events = <<TextChunk(text), StreamEnd>>

\* C12 amended: the same, but when the value of the text field is the empty
\* string and the line is handled no later than 100 ms after the start,
\* chat_stream_end is the only emit.
C12_SseTextUnlessEmpty ==
  \A text \in SseTexts :
    SseTextThenDone(text) =>
      /\ accepts = 1
      /\ accepted = text
      /\ events = IF text = <<>> /\ last_accept <= TimeThresholdMs
                    THEN <<StreamEnd>>
                    ELSE <<TextChunk(text), StreamEnd>>

C12_Witness ==
  /\ SseTextThenDone(<<"h">>)
  /\ events = <<TextChunk(<<"h">>), StreamEnd>>
  /\ last_emit = 0

\* A line that is empty after trimming, fits neither grammar, is a message
\* start, or has a selector other than f 0 e d 3.
IsDropped(line) ==
  \/ line = <<>>
  \/ Selector(line) = "none" /\ ~starts_with(line, DataPrefix)
  \/ Selector(line) = "f"
  \/ Selector(line) \notin {"none", "f", "0", "e", "d", "3"}

LineTakenStep ==
  /\ phase = "Streaming"
  /\ pc = "lines"
  /\ buffer' # buffer

\* C13: such a line is dropped and never ends the session: handling it emits
\* nothing, leaves accumulated_text and last_emit as they are, and the session
\* goes on streaming; this for any selector character, one of several bytes
\* included.
C13_DroppedLines ==
  [][(LineTakenStep /\ IsDropped(PendingLine)) =>
       /\ events' = events
       /\ accumulated_text' = accumulated_text
       /\ last_emit' = last_emit
       /\ phase' = "Streaming"
       /\ result' = "none"]_vars

\* A step in which text is given to the debouncer, and that text.
AcceptStep == accepts' = accepts + 1
AcceptedText == DropFirst(accepted', Len(accepted))

\* C14: when text is accepted it is appended to accumulated_text; if the
\* result is longer than 50 bytes or more than 100 ms have passed since
\* last_emit, all of it is emitted as one chat_chunk, accumulated_text is
\* emptied and last_emit becomes the current time; otherwise nothing is
\* emitted and last_emit stays as it is.
C14_ThresholdFlush ==
  [][AcceptStep =>
       LET pending == accumulated_text \o AcceptedText IN
         IF ByteLen(pending) > SizeThreshold
            \/ clock - last_emit > TimeThresholdMs
           THEN /\ events' = Append(events, TextChunk(pending))
                /\ (refused' = 0) =>
                     (accumulated_text' = <<>> /\ last_emit' = clock)
           ELSE /\ events' = events
                /\ accumulated_text' = pending
                /\ last_emit' = last_emit]_vars

\* Text of 51 bytes emitted 50 ms after the start: by size, not by time.
C14_Witness ==
  /\ phase = "Streaming"
  /\ events = <<TextChunk(Rep("a", SizeThreshold + 1))>>
  /\ accumulated_text = <<>>
  /\ last_emit = TickMs
  /\ clock = TickMs

\* C15: while the session is streaming, between the handling of one line and
\* the next, accumulated_text is never longer than 50 bytes.
C15_SizeBound ==
  phase = "Streaming" => ByteLen(accumulated_text) <= SizeThreshold

\* accumulated_text filled to the bound by two accepts.
C15_Witness ==
  /\ phase = "Streaming"
  /\ ByteLen(accumulated_text) = SizeThreshold
  /\ accepts = 2

\* C16 as stated: while the session is streaming, text in accumulated_text is
\* never held for more than 100 ms, also when no further text arrives; so the
\* text accepted last, which is part of it, was accepted at most 100 ms ago.
C16_HeldAtMostThreshold ==
  (phase = "Streaming" /\ accumulated_text # <<>>)
    => clock - last_accept <= TimeThresholdMs

\* C16 amended: the time is looked at only when text is accepted.  Text
\* accepted more than 100 ms after last_emit is emitted in the same step with
\* all that was pending, so text pending in a streaming session was last
\* added to at most 100 ms after last_emit; how long it then waits for the
\* next accept, end marker or end of the stream is not bounded.
C16_CheckedAtAccept ==
  (phase = "Streaming" /\ accumulated_text # <<>>)
    => last_accept - last_emit <= TimeThresholdMs

\* Text accepted 150 ms after the start went out at once by the time test
\* alone, and text accepted after it is pending.
C16_Witness ==
  /\ phase = "Streaming"
  /\ accumulated_text # <<>>
  /\ last_emit > TimeThresholdMs
  /\ Len(events) = 1
  /\ events[1].name = "chat_chunk"
  /\ ByteLen(events[1].payload) <= SizeThreshold

\* A step that handles an end marker line: e:, d: or data: [DONE].
MarkerStep == LineTakenStep /\ IsEndMarker(PendingLine)

\* C17: handling an end marker emits accumulated_text, when it is not empty,
\* as exactly one chat_chunk with all of it and leaves it empty, whatever its
\* length and the time since last_emit; with accumulated_text empty it emits
\* nothing.
C17_MarkerFlush ==
  [][MarkerStep =>
       IF accumulated_text # <<>>
         THEN /\ events' = Append(events, TextChunk(accumulated_text))
              /\ (refused' = 0) => (accumulated_text' = <<>>)
         ELSE /\ events' = events
              /\ accumulated_text' = <<>>]_vars

\* One chat_chunk of at most 50 bytes emitted while streaming, within 100 ms
\* of the start and without last_emit being set: by an end marker.
C17_Witness ==
  /\ phase = "Streaming"
  /\ accumulated_text = <<>>
  /\ Len(events) = 1
  /\ events[1].name = "chat_chunk"
  /\ events[1].payload # <<>>
  /\ ByteLen(events[1].payload) <= SizeThreshold
  /\ clock <= TimeThresholdMs
  /\ ByteLen(accepted) <= SizeThreshold

\* C18: handling an end marker emits no chat_stream_end and does not end the
\* session, which goes on with the next line or the next read; a
\* chat_stream_end is emitted only at the graceful end of the stream, as the
\* last emit, and text accepted after an end marker is emitted all the same.
C18_MarkerGoesOn ==
  /\ [][MarkerStep =>
          /\ Count(events', "chat_stream_end") = 0
          /\ buffer' = DropFirst(buffer, find(buffer))
          /\ (refused' = 0) =>
               /\ phase' = "Streaming"
               /\ result' = "none"
               /\ pc' = IF find(buffer') # 0 THEN "lines" ELSE "read"]_vars
  /\ [](Count(events, "chat_stream_end") > 0 =>
          /\ phase \in {"Completed", "Failed"}
          /\ pos = Len(wire)
          /\ find(buffer) = 0
          /\ Count(events, "chat_stream_end") = 1
          /\ LastEvent = StreamEnd)
  /\ [](phase = "Completed" =>
          /\ LastEvent = StreamEnd
          /\ ChunkText(events) = accepted)

\* Text and an error that came after an end marker were both emitted.
C18_Witness ==
  /\ wire = JoinLines(<<LineDone, LineError, LineA>>)
  /\ phase = "Completed"
  /\ events = <<StreamError(<<"r">>), TextChunk(<<"a">>), StreamEnd>>

\* The text a payload resolves to, as a sequence of one text or of none: the
\* decoded string of a JSON string literal; else, for a payload of length 2
\* or more that begins and ends with a double quote, what is between the two;
\* else none.
IsJsonString(payload) == from_str(payload).ok /\ from_str(payload).v.t = "str"

Resolved(payload) ==
  IF IsJsonString(payload) THEN <<from_str(payload).v.s>>
  ELSE IF /\ Len(payload) >= 2
          /\ payload[1] = QUOTE
          /\ payload[Len(payload)] = QUOTE
    THEN <<SubSeq(payload, 2, Len(payload) - 1)>>
  ELSE <<>>

TextLineStep == LineTakenStep /\ Selector(PendingLine) = "0"

\* C19: a line 0:<payload> gives the debouncer the decoded string when the
\* payload is a JSON string literal, else what is between the quotes when the
\* payload has length 2 or more and begins and ends with a double quote; in
\* every other case (valid JSON that is no string, a lone quote) nothing is
\* given to it, nothing is emitted and the session goes on.
C19_TextResolution ==
  [][TextLineStep =>
       LET text == Resolved(Payload(PendingLine)) IN
         IF text # <<>>
           THEN /\ AcceptStep
                /\ AcceptedText = text[1]
           ELSE /\ accepts' = accepts
                /\ accepted' = accepted
                /\ events' = events
                /\ accumulated_text' = accumulated_text
                /\ phase' = "Streaming"
                /\ result' = "none"]_vars

\* 0:"a", 0:7, 0:"a<TAB>b", 3:r has been handled to the end: the number gave
\* no text, the payload with the raw tab gave what is between its quotes.
C19_Witness ==
  /\ wire = JoinLines(<<LineA, LineNumber, LineTab, LineErrorRaw>>)
  /\ phase = "Completed"
  /\ accepts = 2
  /\ accepted = <<"a", "a", TAB, "b">>

\* The message of an error line as the resolution order with raw fallback
\* gives it: the decoded string of a JSON string literal, else what is between
\* the quotes of a quoted payload, else the payload as it stands.
ErrorMessage(payload) ==
  IF Resolved(payload) # <<>> THEN Resolved(payload)[1] ELSE payload

\* C20: handling a line 3:<payload> emits exactly one chat_stream_error, whose
\* message is the decoded string when the payload is a JSON string literal
\* (escape sequences decoded), else the interior of a payload wrapped in
\* double quotes, else the payload unchanged.
C20_ErrorResolution ==
  [][ErrorLineStep =>
       events' = Append(events, StreamError(ErrorMessage(Payload(PendingLine))))]_vars

\* A step that handles a line data: <payload> whose payload is neither empty
\* nor [DONE], and that payload.
SseData(line) == DropFirst(line, Len(DataPrefix))

IsWrapped(payload) ==
  /\ Len(payload) >= 2
  /\ payload[1] = QUOTE
  /\ payload[Len(payload)] = QUOTE

SseTextStep ==
  /\ LineTakenStep
  /\ Selector(PendingLine) = "none"
  /\ starts_with(PendingLine, DataPrefix)
  /\ SseData(PendingLine) # <<>>
  /\ SseData(PendingLine) # DoneMarker

\* C21: a line data: <payload> is resolved as a line 0:<payload> is: a payload
\* that is a JSON string literal gives the debouncer its decoded string, and a
\* payload wrapped in double quotes that is not JSON gives it what is between
\* the quotes.
C21_SseSameChain ==
  [][(SseTextStep /\ (IsJsonString(SseData(PendingLine))
                        \/ IsWrapped(SseData(PendingLine)))) =>
       /\ AcceptStep
       /\ AcceptedText = Resolved(SseData(PendingLine))[1]]_vars

\* The payload is a JSON object with a string field text.
HasTextField(payload) ==
  from_str(payload).ok /\ get_text(from_str(payload).v) # <<>>

\* C22: a line data: <payload> whose payload is neither a JSON string literal
\* nor wrapped in double quotes nor an object with a text field (a number, an
\* object without text, text that is not JSON) gives the debouncer the payload
\* as it stands; none is dropped.
C22_SseRawFallback ==
  [][(SseTextStep /\ ~IsJsonString(SseData(PendingLine))
                  /\ ~IsWrapped(SseData(PendingLine))
                  /\ ~HasTextField(SseData(PendingLine))) =>
       /\ AcceptStep
       /\ AcceptedText = SseData(PendingLine)]_vars

\* A step that reads a chunk, and the text of that chunk.
ReadStep == pos' # pos
ChunkRead == DropFirst(received', Len(received))

\* C23: when a chunk has been handled to its end, the buffer holds no newline
\* and is exactly what follows the last newline of all text received so far;
\* lines leave the buffer one at a time from its front, each once, and a
\* chunk is appended to the partial line the buffer holds.
C23_LineBuffer ==
  /\ []((phase = "Streaming" /\ pc = "read") =>
          /\ find(buffer) = 0
          /\ buffer = Unterminated(received))
  /\ [](phase = "Streaming" =>
          /\ Len(buffer) <= Len(received)
          /\ buffer = DropFirst(received, Len(received) - Len(buffer))
          /\ At(received, Len(received) - Len(buffer)) \in {NL, "EOF"})
  /\ [][LineTakenStep =>
          /\ find(buffer) # 0
          /\ buffer' = DropFirst(buffer, find(buffer))
          /\ received' = received]_vars
  /\ [][ReadStep =>
          /\ find(buffer) = 0
          /\ buffer' = buffer \o ChunkRead]_vars

\* A line was taken out and handled, and the beginning of the next line
\* waits in the buffer for the chunk that completes it.
C23_Witness ==
  /\ phase = "Streaming"
  /\ pc = "read"
  /\ accepts = 1
  /\ buffer # <<>>
  /\ Len(buffer) < Len(received)
  /\ pos < Len(wire)

\* C24: a read error while text is accumulated discards that text: the
\* session has failed with the chat_stream_error as its last emit, the
\* chat_chunk emits carry the accepted text without the part that was
\* accumulated, and no emit follows.
C24_ReadErrorDiscards ==
  /\ [](ReadFailed =>
          /\ phase = "Failed"
          /\ LastEvent = StreamError(ReadErrorMessage)
          /\ ChunkText(events) \o accumulated_text = accepted)
  /\ [][(~ReadFailed /\ ReadFailed') =>
          /\ ChunkText(events') = ChunkText(events)
          /\ Count(events', "chat_chunk") = Count(events, "chat_chunk")
          /\ accumulated_text' = accumulated_text]_vars
  /\ [][ReadFailed => events' = events]_vars

\* A read error after one chat_chunk, with text accepted since then.
C24_Witness ==
  /\ ReadFailed
  /\ accumulated_text # <<>>
  /\ Count(events, "chat_chunk") = 1
  /\ ChunkText(events) # accepted

\* C25: at the graceful end of the stream what is left in the buffer, a last
\* line without its newline, is not handled: it stays where it is, gives the
\* debouncer nothing, adds no chat_chunk text beyond what was accumulated and
\* no chat_stream_error, and chat_stream_end is emitted all the same.
C25_TailDiscarded ==
  [][GracefulEndStep =>
       /\ buffer' = buffer
       /\ accepts' = accepts
       /\ accepted' = accepted
       /\ ChunkText(events') = ChunkText(events) \o accumulated_text
       /\ Count(events', "chat_stream_error") = Count(events, "chat_stream_error")
       /\ (refused' = 0) => (events'[Len(events')] = StreamEnd)]_vars

\* The stream 0:"a" <newline> 0:"b" has ended: only a was emitted.
C25_Witness ==
  /\ phase = "Completed"
  /\ buffer = TextLine(<<"b">>)
  /\ events = <<TextChunk(<<"a">>), StreamEnd>>

\* C26 as stated: in every state of a session in which the sink has refused
\* no emit, the chat_chunk text emitted so far followed by accumulated_text is
\* all the text accepted so far.
C26_EmittedThenPending ==
  refused = 0 => ChunkText(events) \o accumulated_text = accepted

\* C26 amended: this holds in every such state before the graceful end of the
\* stream; the emit after the loop does not clear accumulated_text, so from
\* then on the chat_chunk text alone is all the accepted text.  In all these
\* states the emitted text is a prefix of the accepted text.
C26_EmittedThenPendingWhileOpen ==
  refused = 0 =>
    /\ ChunkText(events)
         \o (IF phase = "Completed" THEN <<>> ELSE accumulated_text) = accepted
    /\ Len(ChunkText(events)) <= Len(accepted)
    /\ ChunkText(events) = SubSeq(accepted, 1, Len(ChunkText(events)))

\* Some text has been emitted and some is pending.
C26_Witness ==
  /\ phase = "Streaming"
  /\ refused = 0
  /\ ChunkText(events) # <<>>
  /\ accumulated_text # <<>>
  /\ ChunkText(events) \o accumulated_text = accepted

\* C27: the command has returned Ok exactly when chat_stream_end is the last
\* emit and the sink took every emit; a session that failed, by the HTTP
\* status, a read error or a refused emit, has returned Err, and if a
\* chat_stream_end was emitted in it, it is the emit the sink refused.
C27_OutcomeMatchesEnd ==
  /\ (result = "Ok") <=> (events # <<>> /\ LastEvent = StreamEnd /\ refused = 0)
  /\ (result = "Ok") <=> (phase = "Completed")
  /\ (result = "Err") <=> (phase = "Failed")
  /\ phase = "Failed" =>
       /\ cause \in {"http", "transport", "sink"}
       /\ \A i \in DOMAIN events : events[i] = StreamEnd => i = refused

\* The last chat_chunk was taken, the chat_stream_end after it refused.
C27_Witness ==
  /\ phase = "Failed"
  /\ result = "Err"
  /\ Len(events) >= 2
  /\ LastEvent = StreamEnd
  /\ refused = Len(events)
  /\ events[Len(events) - 1].name = "chat_chunk"

====
